---- MODULE Spec2Model ----
(***************************************************************************)
(* State-machine model of fragrantica_notes_scraper.py: main's loop over   *)
(* the note groups, process_notes' loop over the notes of the matching     *)
(* groups, extract_note_data's retry loop with its driver restart, and     *)
(* save_enriched_data.  The browser and the web site are the environment:  *)
(* each attempt finds the anchor element, times out or raises, and each    *)
(* field element of a loaded page is present or absent.                    *)
(***************************************************************************)
EXTENDS Naturals, Sequences, FiniteSets, TLC

VARIABLES
    data,        \* main: the dataset loaded from the file (data["data"]), mutated in place
    file,        \* the content of ./notes_output.json
    pc,          \* the position of the single thread of control
    gi,          \* main: index of group_name in note_groups
    groups,      \* process_notes: the matching groups (indices into data)
    w,           \* process_notes: position of the nested for loops, as an index into NotePositions
    driver,      \* main / process_notes: the session bound to their variable driver (0: none yet)
    exDriver,    \* extract_note_data: the session bound to driver in the innermost frame
    attempt,     \* extract_note_data: the loop variable attempt (= retries once the loop is over)
    restarts,    \* number of driver restarts so far in the run (recursion cycles)
    extracted,   \* process_notes: extracted_data
    sessions,    \* the browser sessions created so far, each "open" or "closed"
    slept,       \* the argument of the time.sleep call of the last step, 0 if it made none
    lastLog,     \* the last message written to the log
    data0,       \* the dataset as loaded at start
    completed,   \* the dataset as it stood when process_notes last returned (data0 before that)
    saves,       \* number of times the file was written
    visited,     \* process_notes: the note positions extract_note_data was called for in this call
    served,      \* the page the attempt that returned the current record was served (None: none)
    processed    \* the note positions whose extraction returned and went through lines 139-150

vars == <<data, file, pc, gi, groups, w, driver, exDriver, attempt, restarts,
          extracted, sessions, slept, lastLog, data0, completed, saves, visited,
          served, processed>>

----------------------------------------------------------------------------
(* Bounds of the model *)

\* number of entries of main's note_groups list that the model runs through
NumGroups == 2
\* number of driver restarts (recursive calls of extract_note_data) explored in one run
MaxRestarts == 2

(* Program constants *)

retries == 3
delay == 2
cooldown == 30

\* main's note_groups, in order
AllNoteGroups ==
    << "CITRUS SMELLS", "FRUITS, VEGETABLES AND NUTS", "FLOWERS", "WHITE FLOWERS",
       "GREENS, HERBS AND FOUGERES", "SPICES", "SWEETS AND GOURMAND SMELLS",
       "WOODS AND MOSSES", "RESINS AND BALSAMS", "MUSK, AMBER, ANIMALIC SMELLS",
       "BEVERAGES", "NATURAL AND SYNTHETIC, POPULAR AND WEIRD" >>

note_groups == SubSeq(AllNoteGroups, 1, NumGroups)

\* Python's None / an empty dict: both are falsy in "if extracted_data:"
None == <<>>

\* JSON null
Null == "null"

\* XPATHS, with the common prefix /html/body/div[2]/div[2]/div[4]/div[1]/div[1] left out
XPATHS ==
    [ note_key_element |-> "/div",
      note_alt_name    |-> "/div/div[1]/div/div[1]/p/em",
      note_profile     |-> "/div/div[2]/p",
      note_images_base |-> "/div/div[1]/div/div" ]

\* extract_note_data: indices=[2, 3, 4]
indices == <<2, 3, 4>>

\* get_image_sources: img_xpath = f"{base_xpath}[{index}]/img"
ImgXPath(base_xpath, index) == base_xpath \o "[" \o ToString(index) \o "]/img"

\* the keys extract_note_data returns besides note_link
EnrichmentFields ==
    {"note_alt_name", "note_profile", "note_image_1", "note_image_2", "note_image_3"}

----------------------------------------------------------------------------
(* The web site: the field elements of a note page, each present or absent *)

FieldXPaths ==
    {XPATHS.note_alt_name, XPATHS.note_profile}
        \cup {ImgXPath(XPATHS.note_images_base, indices[k]) : k \in 1..Len(indices)}

\* a page: which field elements it holds
Pages == [FieldXPaths -> BOOLEAN]

\* the text (or the src attribute) of the element at xpath on the page of note_link
PageValue(note_link, xpath) == note_link \o "@" \o xpath

----------------------------------------------------------------------------
(* Field extraction *)

\* get_text: the element's text, None when the wait fails
get_text(page, note_link, xpath) ==
    IF page[xpath] THEN PageValue(note_link, xpath) ELSE Null

\* get_image_sources that appends only what it found and fills the list up with None
\* at the end
get_image_sources_compacted(page, note_link, base_xpath, idx) ==
    LET found == SelectSeq(idx, LAMBDA index : page[ImgXPath(base_xpath, index)])
    IN  [ k \in 1..Len(idx) |->
            IF k <= Len(found)
            THEN PageValue(note_link, ImgXPath(base_xpath, found[k]))
            ELSE Null ]

\* get_image_sources: one entry per index, in order; None where the wait fails
get_image_sources(page, note_link, base_xpath, idx) ==
    [ k \in 1..Len(idx) |->
        IF page[ImgXPath(base_xpath, idx[k])]
        THEN PageValue(note_link, ImgXPath(base_xpath, idx[k]))
        ELSE Null ]

\* ExtractedRecord with the link read from the page (the address the browser is at)
\* instead of the argument
ExtractedRecordWithPageLink(page, note_link) ==
    [ note_link     |-> "https://www.fragrantica.com" \o note_link,
      note_alt_name |-> IF page[XPATHS.note_alt_name]
                        THEN PageValue(note_link, XPATHS.note_alt_name) ELSE Null,
      note_profile  |-> IF page[XPATHS.note_profile]
                        THEN PageValue(note_link, XPATHS.note_profile) ELSE Null,
      note_image_1  |-> IF page[ImgXPath(XPATHS.note_images_base, 2)]
                        THEN PageValue(note_link, ImgXPath(XPATHS.note_images_base, 2))
                        ELSE Null,
      note_image_2  |-> IF page[ImgXPath(XPATHS.note_images_base, 3)]
                        THEN PageValue(note_link, ImgXPath(XPATHS.note_images_base, 3))
                        ELSE Null,
      note_image_3  |-> IF page[ImgXPath(XPATHS.note_images_base, 4)]
                        THEN PageValue(note_link, ImgXPath(XPATHS.note_images_base, 4))
                        ELSE Null ]

\* ExtractedRecord as one transaction: a single missing element empties every field
ExtractedRecordAllOrNothing(page, note_link) ==
    LET every == \A x \in DOMAIN page : page[x]
        src(index) == PageValue(note_link, ImgXPath(XPATHS.note_images_base, index))
    IN  [ note_link     |-> note_link,
          note_alt_name |-> IF every THEN PageValue(note_link, XPATHS.note_alt_name) ELSE Null,
          note_profile  |-> IF every THEN PageValue(note_link, XPATHS.note_profile) ELSE Null,
          note_image_1  |-> IF every THEN src(2) ELSE Null,
          note_image_2  |-> IF every THEN src(3) ELSE Null,
          note_image_3  |-> IF every THEN src(4) ELSE Null ]

\* the record extract_note_data returns once the anchor element was found
ExtractedRecord(page, note_link) ==
    LET note_images == get_image_sources(page, note_link, XPATHS.note_images_base, indices)
    IN  [ note_link     |-> note_link,
          note_alt_name |-> get_text(page, note_link, XPATHS.note_alt_name),
          note_profile  |-> get_text(page, note_link, XPATHS.note_profile),
          note_image_1  |-> note_images[1],
          note_image_2  |-> note_images[2],
          note_image_3  |-> note_images[3] ]

\* update as dict.setdefault would do it: a key the note already has keeps its value
updateMissingOnly(note, other) ==
    [ k \in DOMAIN note \cup DOMAIN other |->
        IF k \in DOMAIN note THEN note[k] ELSE other[k] ]

\* update that stores the address the browser ended up at instead of the note's link
updateWithBrowserUrl(note, other) ==
    [ k \in DOMAIN note \cup DOMAIN other |->
        IF k = "note_link" THEN "https://www.fragrantica.com" \o other[k]
        ELSE IF k \in DOMAIN other THEN other[k] ELSE note[k] ]

\* dict.update: the keys of other overwrite or extend those of note
update(note, other) ==
    [ k \in DOMAIN note \cup DOMAIN other |->
        IF k \in DOMAIN other THEN other[k] ELSE note[k] ]

----------------------------------------------------------------------------
(* Browser sessions *)

\* uc.Chrome(options=options): a new open session
initialize_driver(ss) == Append(ss, "open")

\* driver.quit(): the session is closed (closing a closed one changes nothing)
quit(ss, d) == [ss EXCEPT ![d] = "closed"]

OpenSessions == {d \in 1..Len(sessions) : sessions[d] = "open"}

----------------------------------------------------------------------------
(* The dataset *)

Group(name, notes) == [note_group_name |-> name, notes |-> notes]

\* a note that was never enriched
Bare(note_link) == [note_link |-> note_link]

\* a note as an earlier run left it, from a page that has since changed
Stale(note_link) ==
    [ note_link     |-> note_link,
      note_name     |-> "name of " \o note_link,
      note_alt_name |-> "old alt name",
      note_profile  |-> Null,
      note_image_1  |-> "old image",
      note_image_2  |-> Null,
      note_image_3  |-> "old image" ]

\* a note as an earlier run left it, from a page holding every field element
Fresh(note_link) == ExtractedRecord([x \in FieldXPaths |-> TRUE], note_link)

\* the datasets the run may start from (notes_output.json)
Datasets ==
    { << Group("CITRUS SMELLS", <<Bare("/notes/Lemon-77.html"), Stale("/notes/Lime-78.html")>>),
         Group("citrus smells", <<Stale("/notes/Yuzu-79.html")>>) >>,
      << Group("CITRUS SMELLS", <<Stale("/notes/Lemon-77.html")>>),
         Group("UNCATEGORIZED", <<Bare("/notes/Yuzu-79.html")>>),
         Group("CITRUS SMELLS", <<Bare("/notes/Lime-78.html")>>) >>,
      << Group("FRUITS, VEGETABLES AND NUTS", <<Fresh("/notes/Apple-1.html")>>),
         Group("CITRUS SMELLS", <<>>),
         Group("CITRUS SMELLS", <<Stale("/notes/Lemon-77.html")>>) >> }

\* upper case of the group names of the datasets
Upper(name) == IF name = "citrus smells" THEN "CITRUS SMELLS" ELSE name

\* Matches with the case of the names ignored
MatchesIgnoringCase(group, group_name) == Upper(group.note_group_name) = Upper(group_name)

\* process_notes: group["note_group_name"] == group_name
Matches(group, group_name) == group.note_group_name = group_name

\* MatchingGroups that stops at the first group of that name
FirstMatchingGroup(d, group_name) ==
    LET all == SelectSeq([i \in 1..Len(d) |-> i],
                         LAMBDA i : d[i].note_group_name = group_name)
    IN  IF all = <<>> THEN <<>> ELSE <<Head(all)>>

\* process_notes: the groups list, as the indices of the matching groups in order
MatchingGroups(d, group_name) ==
    SelectSeq([i \in 1..Len(d) |-> i], LAMBDA i : Matches(d[i], group_name))

\* the nested for loops of process_notes: the <<group, note>> index pairs in the
\* order the loops visit them
RECURSIVE NotePositions(_, _)
NotePositions(d, gs) ==
    IF gs = <<>> THEN <<>>
    ELSE [j \in 1..Len(d[Head(gs)].notes) |-> <<Head(gs), j>>] \o NotePositions(d, Tail(gs))

\* the note the loops are at
CurPos == NotePositions(data, groups)[w]
CurNote == data[CurPos[1]].notes[CurPos[2]]

----------------------------------------------------------------------------
(* Initial state: main has loaded the file and is about to enter its loop *)

Init ==
    /\ data \in Datasets
    /\ file = data
    /\ data0 = data
    /\ completed = data
    /\ pc = "main_loop"
    /\ gi = 1
    /\ groups = <<>>
    /\ w = 1
    /\ driver = 0
    /\ exDriver = 0
    /\ attempt = 0
    /\ restarts = 0
    /\ extracted = None
    /\ sessions = <<>>
    /\ slept = 0
    /\ lastLog = "none"
    /\ saves = 0
    /\ visited = {}
    /\ served = None
    /\ processed = {}

----------------------------------------------------------------------------
(* main *)

\* main, lines 187-191: the next group name; a new driver for the group
MainInitDriver ==
    /\ pc = "main_loop"
    /\ sessions' = initialize_driver(sessions)
    /\ driver' = Len(sessions) + 1
    /\ lastLog' = "Processing group"
    /\ slept' = 0
    /\ pc' = "process_notes"
    /\ UNCHANGED <<data, file, gi, groups, w, exDriver, attempt, restarts, extracted,
                   data0, completed, saves, visited,
                   served, processed>>

\* main, line 191: initialize_driver raises; nothing catches it and the run ends
MainInitDriverFails ==
    /\ pc = "main_loop"
    /\ lastLog' = "Processing group"
    /\ slept' = 0
    /\ pc' = "crashed"
    /\ UNCHANGED <<data, file, gi, groups, w, driver, exDriver, attempt, restarts,
                   extracted, sessions, data0, completed, saves, visited,
                   served, processed>>

\* SaveEnrichedData that dumps the groups just processed instead of the dataset
SaveProcessedGroupsOnly ==
    /\ pc = "save"
    /\ file' = [k \in 1..Len(groups) |-> data[groups[k]]]
    /\ saves' = saves + 1
    /\ slept' = 0
    /\ pc' = "quit"
    /\ UNCHANGED <<data, gi, groups, w, driver, exDriver, attempt, restarts, extracted,
                   sessions, lastLog, data0, completed, visited,
                   served, processed>>

\* main, line 194: save_enriched_data writes the whole dataset over the file
SaveEnrichedData ==
    /\ pc = "save"
    /\ file' = data
    /\ saves' = saves + 1
    /\ slept' = 0
    /\ pc' = "quit"
    /\ UNCHANGED <<data, gi, groups, w, driver, exDriver, attempt, restarts, extracted,
                   sessions, lastLog, data0, completed, visited,
                   served, processed>>

\* main, lines 196-199: the group's driver, as main knows it, is closed
MainQuitDriver ==
    /\ pc = "quit"
    /\ lastLog' = "Waiting for 30 seconds"
    /\ sessions' = quit(sessions, driver)
    /\ slept' = 0
    /\ pc' = "sleep"
    /\ UNCHANGED <<data, file, gi, groups, w, driver, exDriver, attempt, restarts,
                   extracted, data0, completed, saves, visited,
                   served, processed>>

\* main, line 200: the cool-down pause, then the next group or the end of the run
MainSleep ==
    /\ pc = "sleep"
    /\ slept' = cooldown
    /\ gi' = gi + 1
    /\ pc' = IF gi < Len(note_groups) THEN "main_loop" ELSE "done"
    /\ UNCHANGED <<data, file, groups, w, driver, exDriver, attempt, restarts, extracted,
                   sessions, lastLog, data0, completed, saves, visited,
                   served, processed>>

----------------------------------------------------------------------------
(* process_notes *)

\* lines 117-130: select the matching groups; return at once when there is none
ProcessNotesEnter ==
    /\ pc = "process_notes"
    /\ groups' = MatchingGroups(data, note_groups[gi])
    /\ w' = 1
    /\ slept' = 0
    /\ IF groups' = <<>>
       THEN /\ lastLog' = "No group named"
            /\ completed' = data
            /\ pc' = "save"
       ELSE /\ lastLog' = "Total number of notes to process"
            /\ completed' = completed
            /\ pc' = "notes_loop"
    /\ visited' = {}
    /\ UNCHANGED <<data, file, gi, driver, exDriver, attempt, restarts, extracted,
                   sessions, data0, saves,
                   served, processed>>

\* lines 132-137: the next note; extract_note_data is called with process_notes' driver
NextNote ==
    /\ pc = "notes_loop"
    /\ w <= Len(NotePositions(data, groups))
    /\ lastLog' = "Processing note link"
    /\ exDriver' = driver
    /\ attempt' = 0
    /\ extracted' = None
    /\ slept' = 0
    /\ visited' = visited \cup {CurPos}
    /\ pc' = "attempt"
    /\ served' = None
    /\ UNCHANGED <<data, file, gi, groups, w, driver, restarts, sessions, data0,
                   completed, saves,
                   processed>>

\* the note process_notes' loops are at, after the merge of other into it (line 141)
MergedData(other) ==
    [data EXCEPT ![CurPos[1]].notes[CurPos[2]] = update(@, other)]

\* MergeExtracted without the comparison of the links
MergeWithoutLinkCheck ==
    /\ pc = "merge"
    /\ IF extracted # None
       THEN /\ data' = MergedData(extracted)
            /\ lastLog' = "Successfully processed note"
       ELSE /\ data' = data
            /\ lastLog' = "Failed to extract data for note link"
    /\ w' = w + 1
    /\ slept' = 0
    /\ pc' = "notes_loop"
    /\ processed' = processed \cup {CurPos}
    /\ UNCHANGED <<file, gi, groups, driver, exDriver, attempt, restarts, extracted,
                   sessions, data0, completed, saves, visited,
                   served>>

\* lines 139-150: merge the returned record into the note when its link is the note's own
MergeExtracted ==
    /\ pc = "merge"
    /\ IF extracted # None
       THEN IF CurNote.note_link = extracted.note_link
            THEN /\ data' = MergedData(extracted)
                 /\ lastLog' = "Successfully processed note"
            ELSE /\ data' = data
                 /\ lastLog' = "Mismatch between expected note link and extracted note link"
       ELSE /\ data' = data
            /\ lastLog' = "Failed to extract data for note link"
    /\ w' = w + 1
    /\ slept' = 0
    /\ pc' = "notes_loop"
    /\ processed' = processed \cup {CurPos}
    /\ UNCHANGED <<file, gi, groups, driver, exDriver, attempt, restarts, extracted,
                   sessions, data0, completed, saves, visited,
                   served>>

\* lines 152-157: the loops are over; log every note and return the dataset
ProcessNotesReturn ==
    /\ pc = "notes_loop"
    /\ w > Len(NotePositions(data, groups))
    /\ lastLog' = "Final note data"
    /\ completed' = data
    /\ slept' = 0
    /\ pc' = "save"
    /\ UNCHANGED <<data, file, gi, groups, w, driver, exDriver, attempt, restarts,
                   extracted, sessions, data0, saves, visited,
                   served, processed>>

----------------------------------------------------------------------------
(* extract_note_data *)

\* AttemptSucceeds with field reads that let their exception through: a page with an
\* element missing makes the attempt fail like any other exception
AttemptFailsOnFieldMiss ==
    /\ pc = "attempt"
    /\ attempt < retries
    /\ sessions[exDriver] = "open"
    /\ \E page \in Pages :
        IF \A x \in FieldXPaths : page[x]
        THEN /\ served' = page
             /\ extracted' = ExtractedRecord(page, CurNote.note_link)
             /\ lastLog' = lastLog
             /\ exDriver' = 0
             /\ attempt' = 0
             /\ pc' = "merge"
        ELSE /\ lastLog' = "Error retrieving data"
             /\ attempt' = attempt + 1
             /\ UNCHANGED <<served, extracted, exDriver, pc>>
    /\ slept' = 0
    /\ UNCHANGED <<data, file, gi, groups, w, driver, restarts, sessions, data0,
                   completed, saves, visited, processed>>

\* lines 60-83: the anchor element is found on a live session; every field is read
\* (a missing one is None) and the record is returned
AttemptSucceeds ==
    /\ pc = "attempt"
    /\ attempt < retries
    /\ sessions[exDriver] = "open"
    /\ \E page \in Pages :
        /\ served' = page
        /\ extracted' = ExtractedRecord(page, CurNote.note_link)
        /\ lastLog' = IF \E x \in FieldXPaths : ~page[x]
                      THEN "Failed to get text or image source"
                      ELSE lastLog
    /\ exDriver' = 0
    /\ attempt' = 0
    /\ slept' = 0
    /\ pc' = "merge"
    /\ UNCHANGED <<data, file, gi, groups, w, driver, restarts, sessions, data0,
                   completed, saves, visited,
                   processed>>

\* AttemptTimesOut with the exponent taken from the attempt number of the log
\* message (attempt + 1)
AttemptTimesOutOneBased ==
    /\ pc = "attempt"
    /\ attempt < retries
    /\ sessions[exDriver] = "open"
    /\ lastLog' = "Page load exceeded the time limit"
    /\ slept' = delay * (2 ^ (attempt + 1))
    /\ attempt' = attempt + 1
    /\ UNCHANGED <<data, file, pc, gi, groups, w, driver, exDriver, restarts, extracted,
                   sessions, data0, completed, saves, visited, served, processed>>

\* lines 84-88: the anchor element does not show up in max_page_time; back off
AttemptTimesOut ==
    /\ pc = "attempt"
    /\ attempt < retries
    /\ sessions[exDriver] = "open"
    /\ lastLog' = "Page load exceeded the time limit"
    /\ slept' = delay * (2 ^ attempt)
    /\ attempt' = attempt + 1
    /\ UNCHANGED <<data, file, pc, gi, groups, w, driver, exDriver, restarts, extracted,
                   sessions, data0, completed, saves, visited,
                   served, processed>>

\* AttemptRaises that backs off like a timeout does
AttemptRaisesWithBackoff ==
    /\ pc = "attempt"
    /\ attempt < retries
    /\ lastLog' = "Error retrieving data"
    /\ slept' = delay * (2 ^ attempt)
    /\ attempt' = attempt + 1
    /\ UNCHANGED <<data, file, pc, gi, groups, w, driver, exDriver, restarts, extracted,
                   sessions, data0, completed, saves, visited, served, processed>>

\* AttemptRaises with an except clause that does not cover the exception
AttemptRaisesUncaught ==
    /\ pc = "attempt"
    /\ attempt < retries
    /\ lastLog' = lastLog
    /\ slept' = 0
    /\ pc' = "crashed"
    /\ UNCHANGED <<data, file, gi, groups, w, driver, exDriver, attempt, restarts,
                   extracted, sessions, data0, completed, saves, visited, served, processed>>

\* lines 89-92: any other exception (always so on a closed session); no sleep
AttemptRaises ==
    /\ pc = "attempt"
    /\ attempt < retries
    /\ lastLog' = "Error retrieving data"
    /\ slept' = 0
    /\ attempt' = attempt + 1
    /\ UNCHANGED <<data, file, pc, gi, groups, w, driver, exDriver, restarts, extracted,
                   sessions, data0, completed, saves, visited,
                   served, processed>>

\* RestartDriver that leaves the old session running
RestartWithoutQuit ==
    /\ pc = "attempt"
    /\ attempt = retries
    /\ restarts < MaxRestarts
    /\ lastLog' = "Failed to retrieve data. Restarting driver"
    /\ sessions' = initialize_driver(sessions)
    /\ exDriver' = Len(sessions) + 1
    /\ attempt' = 0
    /\ restarts' = restarts + 1
    /\ slept' = 0
    /\ UNCHANGED <<data, file, pc, gi, groups, w, driver, extracted, data0, completed,
                   saves, visited,
                   served, processed>>

\* RestartDriver that gives the note up and returns None once the attempts are used up
ReturnNoneAfterRetries ==
    /\ pc = "attempt"
    /\ attempt = retries
    /\ lastLog' = "Failed to retrieve data"
    /\ extracted' = None
    /\ exDriver' = 0
    /\ attempt' = 0
    /\ slept' = 0
    /\ pc' = "merge"
    /\ UNCHANGED <<data, file, gi, groups, w, driver, restarts, sessions, data0,
                   completed, saves, visited,
                   served, processed>>

\* lines 94-101: the attempts are used up; quit this frame's driver, bind a new one
\* to this frame's variable and call extract_note_data again with it
RestartDriver ==
    /\ pc = "attempt"
    /\ attempt = retries
    /\ restarts < MaxRestarts
    /\ lastLog' = "Failed to retrieve data. Restarting driver"
    /\ sessions' = initialize_driver(quit(sessions, exDriver))
    /\ exDriver' = Len(sessions) + 1
    /\ attempt' = 0
    /\ restarts' = restarts + 1
    /\ slept' = 0
    /\ UNCHANGED <<data, file, pc, gi, groups, w, driver, extracted, data0, completed,
                   saves, visited,
                   served, processed>>

\* lines 97-98: initialize_driver raises after the quit; nothing catches it
RestartDriverFails ==
    /\ pc = "attempt"
    /\ attempt = retries
    /\ lastLog' = "Failed to retrieve data. Restarting driver"
    /\ sessions' = quit(sessions, exDriver)
    /\ slept' = 0
    /\ pc' = "crashed"
    /\ UNCHANGED <<data, file, gi, groups, w, driver, exDriver, attempt, restarts,
                   extracted, data0, completed, saves, visited,
                   served, processed>>

----------------------------------------------------------------------------

Next ==
    \/ MainInitDriver
    \/ MainInitDriverFails
    \/ ProcessNotesEnter
    \/ NextNote
    \/ AttemptSucceeds
    \/ AttemptTimesOut
    \/ AttemptRaises
    \/ RestartDriver
    \/ RestartDriverFails
    \/ MergeExtracted
    \/ ProcessNotesReturn
    \/ SaveEnrichedData
    \/ MainQuitDriver
    \/ MainSleep

Spec == Init /\ [][Next]_vars

----------------------------------------------------------------------------
(* process_notes on its own: extract_note_data is any function, so that every *)
(* branch of lines 139-150 is exercised                                       *)

\* what the page of note_link may report as its own address
CanonicalLink(note_link) == "https://www.fragrantica.com" \o note_link

\* anything a callee at line 137 can hand back: nothing, or a record whose link is
\* the requested one or another one
ReturnValues(note_link) ==
    {None} \cup { ExtractedRecord(page, l) :
                    page \in Pages, l \in {note_link, CanonicalLink(note_link)} }

\* line 137 with the callee left open
ExtractReturnsAnything ==
    /\ pc = "attempt"
    /\ extracted' \in ReturnValues(CurNote.note_link)
    /\ exDriver' = 0
    /\ slept' = 0
    /\ pc' = "merge"
    /\ UNCHANGED <<data, file, gi, groups, w, driver, attempt, restarts, sessions,
                   lastLog, data0, completed, saves, visited,
                   served, processed>>

NextProcessNotes ==
    \/ MainInitDriver
    \/ MainInitDriverFails
    \/ ProcessNotesEnter
    \/ NextNote
    \/ ExtractReturnsAnything
    \/ MergeExtracted
    \/ ProcessNotesReturn
    \/ SaveEnrichedData
    \/ MainQuitDriver
    \/ MainSleep

SpecProcessNotes == Init /\ [][NextProcessNotes]_vars

----------------------------------------------------------------------------
(* Properties *)

\* the group name main's loop is at ("" once the loop is over)
CurGroupName == IF gi <= Len(note_groups) THEN note_groups[gi] ELSE ""

\* every <<group, note>> position of the groups whose name is exactly name
PositionsNamed(d, name) ==
    UNION { { <<i, j>> : j \in 1..Len(d[i].notes) } :
              i \in {n \in 1..Len(d) : d[n].note_group_name = name} }

\* C1: in every reachable state at most one browser session is open (created and
\* not yet closed), also after extract_note_data restarted the session.
C1_AtMostOneOpenSession == Cardinality(OpenSessions) <= 1

\* C2: when the cool-down pause of a group begins, and when the run is over, every
\* session created so far is closed: none stays open into the next group.
C2_NoSessionOpenAtCoolDown == pc \in {"sleep", "done"} => OpenSessions = {}

\* C3: a restart happens exactly when the attempt index has reached retries, every
\* failed attempt (timeout or other exception) having advanced it by one; the
\* restart closes the frame's session, binds a session that did not exist before,
\* open, and resumes the same note at attempt 0; and after any number of restarts
\* another one is possible as soon as the attempts are used up again.
C3_RestartAfterRetries ==
    /\ [][ /\ restarts' # restarts =>
                /\ pc = "attempt" /\ attempt = retries
                /\ restarts' = restarts + 1
                /\ sessions'[exDriver] = "closed"
                /\ exDriver' \notin 1..Len(sessions)
                /\ exDriver' \in 1..Len(sessions')
                /\ sessions'[exDriver'] = "open"
                /\ \A d \in 1..Len(sessions) : d # exDriver => sessions'[d] = sessions[d]
                /\ attempt' = 0
                /\ pc' = "attempt"
                /\ <<gi', groups', w', data'>> = <<gi, groups, w, data>>
           /\ (pc = "attempt" /\ pc' = "attempt" /\ restarts' = restarts) =>
                /\ attempt < retries
                /\ attempt' = attempt + 1
                /\ exDriver' = exDriver
                /\ sessions' = sessions
           /\ (pc = "attempt" /\ pc' = "merge") => attempt < retries
         ]_vars
    /\ [](pc = "attempt" /\ attempt = retries /\ restarts < MaxRestarts
            => ENABLED RestartDriver)

\* C3 witness: the same (first) note is in its third cycle, freshly restarted
C3_Witness ==
    /\ pc = "attempt" /\ attempt = 0 /\ w = 1 /\ restarts >= 2
    /\ exDriver = Len(sessions) /\ sessions[exDriver] = "open"
    /\ lastLog = "Failed to retrieve data. Restarting driver"

\* C4: the loops of process_notes move past a note only with a record that
\* extract_note_data returned for that note's link from a live session, and the
\* group's save and the end of the run come only after every note of the matching
\* groups was passed that way: while a note keeps failing, nothing later happens.
C4_NoNoteSkipped ==
    /\ [](pc = "merge" => extracted # None /\ extracted.note_link = CurNote.note_link)
    /\ [](pc \in {"save", "quit", "sleep"} =>
            /\ visited = PositionsNamed(data, CurGroupName)
            /\ w = Cardinality(visited) + 1)
    /\ [][ /\ (pc # "process_notes" /\ w' # w) => (pc = "merge" /\ w' = w + 1)
           /\ (extracted' # extracted /\ extracted' # None) =>
                (pc = "attempt" /\ attempt < retries /\ sessions[exDriver] = "open")
           /\ saves' # saves => pc = "save"
           /\ (pc' = "done" /\ pc # "done") => saves' = Len(note_groups)
         ]_vars

\* C4 witness: the first note has failed every attempt of three cycles; no note was
\* passed, nothing was saved
C4_Witness ==
    /\ pc = "attempt" /\ attempt = retries /\ restarts >= 2
    /\ w = 1 /\ saves = 0 /\ data = data0 /\ file = data0

\* the note at position pos of dataset d
NoteAt(d, pos) == d[pos[1]].notes[pos[2]]

\* every position of dataset d
AllPositions(d) == UNION { { <<i, j>> : j \in 1..Len(d[i].notes) } : i \in 1..Len(d) }

\* C5: when the returned link is the note's own, the merge leaves the note with
\* exactly the extracted value in each of the five enrichment fields, whatever it
\* held before; merging content the note already holds changes nothing in the dataset.
C5_MergeOverwritesAndIsIdempotent ==
    [][ (pc = "merge" /\ extracted # None /\ extracted.note_link = CurNote.note_link) =>
            /\ \A f \in EnrichmentFields :
                    /\ f \in DOMAIN NoteAt(data', CurPos)
                    /\ NoteAt(data', CurPos)[f] = extracted[f]
            /\ (\A k \in DOMAIN extracted :
                    k \in DOMAIN CurNote /\ CurNote[k] = extracted[k]) => data' = data
      ]_vars

\* C5 witness: in the second group a note was merged with content it already held and
\* is unchanged, after a note of the first group lost its earlier values to the page's
C5_Witness ==
    /\ gi = 2 /\ pc = "notes_loop" /\ w = 2
    /\ lastLog = "Successfully processed note"
    /\ NoteAt(data0, <<1, 1>>)["note_alt_name"] # Null
    /\ NoteAt(data, <<1, 1>>) = extracted
    /\ NoteAt(data, <<1, 1>>) = NoteAt(data0, <<1, 1>>)
    /\ NoteAt(data0, <<3, 1>>)["note_alt_name"] = "old alt name"
    /\ NoteAt(data, <<3, 1>>)["note_alt_name"] = Null
    /\ NoteAt(data, <<3, 1>>)["note_profile"] # Null

\* C6: when the returned record carries another link than the note's, the dataset
\* is left as it was, the mismatch is logged and the loops go on to the next note.
C6_MismatchLeavesNoteUnchanged ==
    [][ (pc = "merge" /\ extracted # None /\ extracted.note_link # CurNote.note_link) =>
            /\ data' = data
            /\ lastLog' = "Mismatch between expected note link and extracted note link"
            /\ w' = w + 1
            /\ pc' = "notes_loop"
            /\ visited' = visited
      ]_vars

\* C6 witness: a mismatching record was just dropped and the note is as loaded
C6_Witness ==
    /\ pc = "notes_loop" /\ w = 2
    /\ lastLog = "Mismatch between expected note link and extracted note link"
    /\ extracted # None
    /\ extracted.note_link # NoteAt(data, NotePositions(data, groups)[1]).note_link
    /\ data = data0

\* C7: no step changes, in memory or in the file, a group whose name is not exactly
\* the name being processed; the groups, their names, the notes and their order stay
\* as they are, and a note changes only in its enrichment fields and only while it
\* is the note being processed.
C7_OtherGroupsUntouched ==
    [][ /\ Len(data') = Len(data) /\ Len(file') = Len(file)
        /\ \A i \in 1..Len(data) :
            /\ data'[i].note_group_name = data[i].note_group_name
            /\ Len(data'[i].notes) = Len(data[i].notes)
            /\ data[i].note_group_name # CurGroupName =>
                    (data'[i] = data[i] /\ file'[i] = file[i])
            /\ \A j \in 1..Len(data[i].notes) :
                    LET old == data[i].notes[j]
                        new == data'[i].notes[j]
                    IN  /\ DOMAIN old \subseteq DOMAIN new
                        /\ DOMAIN new \subseteq DOMAIN old \cup EnrichmentFields
                        /\ \A k \in DOMAIN old \ EnrichmentFields : new[k] = old[k]
                        /\ new # old => (pc = "merge" /\ <<i, j>> = CurPos)
      ]_vars

\* C7 witness: the first group was processed and saved, its note is changed in the
\* file, and the group named in lower case is in the file as it was loaded
C7_Witness ==
    /\ gi = 1 /\ pc = "quit"
    /\ data0[2].note_group_name = "citrus smells"
    /\ file[1] # data0[1]
    /\ file[2] = data0[2]
    /\ data[2] = data0[2]

\* C8: the groups process_notes works on are exactly the groups whose name equals
\* the group name, all of them, in order, and when it returns extract_note_data was
\* called for every note of each of them; when there is none, that is logged, no
\* extraction was attempted and the dataset is what it was.
C8_ExactMatchAllGroups ==
    pc \in {"notes_loop", "attempt", "merge", "save"} =>
        /\ \A k \in 1..Len(groups) : data0[groups[k]].note_group_name = CurGroupName
        /\ \A k \in 1..Len(groups) : k > 1 => groups[k - 1] < groups[k]
        /\ \A i \in 1..Len(data0) :
                data0[i].note_group_name = CurGroupName =>
                    \E k \in 1..Len(groups) : groups[k] = i
        /\ visited \subseteq PositionsNamed(data0, CurGroupName)
        /\ pc = "save" => visited = PositionsNamed(data0, CurGroupName)
        /\ groups = <<>> =>
                /\ pc = "save"
                /\ lastLog = "No group named"
                /\ visited = {}
                /\ data = file

\* C8 witness: two groups of the same name, each with a note, were both processed
C8_Witness ==
    /\ pc = "save" /\ groups = <<1, 3>> /\ visited = {<<1, 1>>, <<3, 1>>}
    /\ data[1] # data0[1] /\ data[3] # data0[3] /\ data[2] = data0[2]

\* C9: the file was written once for every group name main is done with, matched
\* or not; outside the save itself it holds the whole dataset as it stood when
\* process_notes last returned (as loaded, before the first return), so what was
\* merged in a group that is still being processed is not in the file.
C9_FileIsLastCompletedGroup ==
    /\ saves = (gi - 1) + (IF pc \in {"quit", "sleep"} THEN 1 ELSE 0)
    /\ pc # "save" => file = completed
    /\ pc = "save" => data = completed
    /\ pc \in {"main_loop", "process_notes", "quit", "sleep", "done"} => file = data
    /\ saves = 0 => file = data0

\* C9 witness: the first group is in the file, the merge made in the second is not
C9_Witness ==
    /\ gi = 2 /\ pc = "notes_loop" /\ w = 2 /\ saves = 1
    /\ file # data0 /\ data # file
    /\ lastLog = "Successfully processed note"

\* C10: every note of the dataset and of the file has the link it was loaded with,
\* at the same place of the same group.
C10_NoteLinkNeverChanges ==
    /\ Len(data) = Len(data0) /\ Len(file) = Len(data0)
    /\ \A i \in 1..Len(data0) :
        /\ Len(data[i].notes) = Len(data0[i].notes)
        /\ Len(file[i].notes) = Len(data0[i].notes)
        /\ \A j \in 1..Len(data0[i].notes) :
            /\ data[i].notes[j].note_link = data0[i].notes[j].note_link
            /\ file[i].notes[j].note_link = data0[i].notes[j].note_link

\* C10 witness: two notes were enriched and saved
C10_Witness ==
    /\ pc = "done"
    /\ Cardinality({pos \in AllPositions(data0) : NoteAt(file, pos) # NoteAt(data0, pos)}) = 2

\* the element each enrichment field is read from (lines 18-23, 42, 69, 74-82)
FieldElement ==
    [ note_alt_name |-> "/div/div[1]/div/div[1]/p/em",
      note_profile  |-> "/div/div[2]/p",
      note_image_1  |-> "/div/div[1]/div/div[2]/img",
      note_image_2  |-> "/div/div[1]/div/div[3]/img",
      note_image_3  |-> "/div/div[1]/div/div[4]/img" ]

\* C11: in the record a successful attempt returns, each of the five fields depends
\* on its own element alone: it is null when that element is absent from the page
\* served and the element's value when it is present, whatever the other four are.
C11_FieldsIndependent ==
    pc = "merge" =>
        /\ DOMAIN served = {FieldElement[f] : f \in EnrichmentFields}
        /\ \A f \in EnrichmentFields :
            /\ ~served[FieldElement[f]] => extracted[f] = Null
            /\ served[FieldElement[f]] =>
                    extracted[f] = CurNote.note_link \o "@" \o FieldElement[f]

\* C11 witness: the alternate name and the second image are missing, the profile and
\* the first and third image are there
C11_Witness ==
    /\ pc = "merge"
    /\ extracted.note_alt_name = Null /\ ~served[FieldElement.note_alt_name]
    /\ extracted.note_image_2 = Null /\ ~served[FieldElement.note_image_2]
    /\ extracted.note_profile # Null /\ served[FieldElement.note_profile]
    /\ extracted.note_image_1 # Null /\ served[FieldElement.note_image_1]
    /\ extracted.note_image_3 # Null /\ served[FieldElement.note_image_3]

\* C12: get_image_sources yields one entry per index given, three, entry k being the
\* source of the image at index k + 1 of the sibling structure or null when that
\* image is not found; and note_image_k of the returned record is entry k.
C12_ImageSlotsKeepTheirPlace ==
    pc = "merge" =>
        LET images == get_image_sources(served, CurNote.note_link,
                                        XPATHS.note_images_base, indices)
            slot(k) == "/div/div[1]/div/div[" \o ToString(k + 1) \o "]/img"
        IN  /\ Len(indices) = 3
            /\ DOMAIN images = 1..3
            /\ \A k \in 1..3 :
                images[k] = IF served[slot(k)]
                            THEN CurNote.note_link \o "@" \o slot(k)
                            ELSE Null
            /\ extracted.note_image_1 = images[1]
            /\ extracted.note_image_2 = images[2]
            /\ extracted.note_image_3 = images[3]

\* C12 witness: only the image of the middle slot was found and it is note_image_2
C12_Witness ==
    /\ pc = "merge"
    /\ ~served[FieldElement.note_image_1]
    /\ served[FieldElement.note_image_2]
    /\ ~served[FieldElement.note_image_3]
    /\ extracted.note_image_1 = Null
    /\ extracted.note_image_2 = CurNote.note_link \o "@" \o FieldElement.note_image_2
    /\ extracted.note_image_3 = Null

\* x doubled i times
RECURSIVE Doubled(_, _)
Doubled(x, i) == IF i = 0 THEN x ELSE 2 * Doubled(x, i - 1)

\* C13: the step that logs a page-load timeout at attempt index i sleeps
\* delay * 2^i in that same step, longer than the delay of every lower index, and
\* moves to index i + 1.
C13_BackoffDoubles ==
    /\ [][ (pc = "attempt" /\ pc' = "attempt"
                /\ lastLog' = "Page load exceeded the time limit") =>
                /\ slept' = Doubled(delay, attempt)
                /\ \A i \in 0..(attempt - 1) : Doubled(delay, i) < slept'
                /\ attempt < retries
                /\ attempt' = attempt + 1
                /\ <<exDriver', restarts', sessions'>> = <<exDriver, restarts, sessions>>
         ]_vars
    /\ []((pc = "attempt" /\ lastLog = "Page load exceeded the time limit") =>
                /\ attempt \in 1..retries
                /\ slept = Doubled(delay, attempt - 1))

\* C13 witness: the third attempt in a row has timed out and the sleep was 8 = 2 * 2^2
C13_Witness ==
    /\ pc = "attempt" /\ attempt = 3 /\ slept = 8
    /\ lastLog = "Page load exceeded the time limit"

\* C14: the step that logs another exception sleeps nothing and still moves the
\* attempt index by one; what follows it is the next attempt or, when that was the
\* last one, the restart (or its failure), with no sleep before it.
C14_OtherExceptionNoBackoff ==
    /\ [][ /\ (pc = "attempt" /\ pc' = "attempt" /\ lastLog' = "Error retrieving data") =>
                /\ slept' = 0
                /\ attempt < retries
                /\ attempt' = attempt + 1
                /\ <<exDriver', restarts', sessions'>> = <<exDriver, restarts, sessions>>
           /\ (pc = "attempt" /\ lastLog = "Error retrieving data") =>
                /\ slept = 0
                /\ IF attempt < retries
                   THEN /\ restarts' = restarts
                        /\ \/ pc' = "merge"
                           \/ pc' = "attempt" /\ attempt' = attempt + 1
                   ELSE \/ restarts' = restarts + 1 /\ attempt' = 0 /\ slept' = 0
                        \/ pc' = "crashed" /\ slept' = 0
         ]_vars
    /\ []((pc = "attempt" /\ lastLog = "Error retrieving data") =>
                (slept = 0 /\ attempt \in 1..retries))

\* C14 witness: on a live session two timeouts were followed by another exception,
\* which used up the last attempt without a sleep
C14_Witness ==
    /\ pc = "attempt" /\ attempt = retries /\ slept = 0
    /\ lastLog = "Error retrieving data"
    /\ sessions[exDriver] = "open"

\* C15: the run ends early only where initialize_driver is called, at the start of
\* a group or in a restart after the attempts are used up; that step creates no
\* session and touches neither the dataset nor the file, nothing follows it, and the
\* file is the dataset as of the last return of process_notes, written once per
\* finished group.  After a field miss, a timeout, another exception or the end of
\* the attempts the run is not over: a step other than that failure is possible.
C15_OnlySessionCreationIsFatal ==
    /\ [][ (pc' = "crashed" /\ pc # "crashed") =>
                /\ \/ pc = "main_loop"
                   \/ pc = "attempt" /\ attempt = retries
                /\ Len(sessions') = Len(sessions)
                /\ <<data', file', saves', w', gi'>> = <<data, file, saves, w, gi>>
         ]_vars
    /\ [](pc = "crashed" =>
                /\ file = completed
                /\ saves = gi - 1
                /\ ~ENABLED Next)
    /\ [](lastLog \in { "Failed to get text or image source",
                        "Page load exceeded the time limit",
                        "Error retrieving data" } => pc # "crashed")
    /\ []((pc \notin {"done", "crashed"}
            /\ ~(pc = "attempt" /\ attempt = retries /\ restarts >= MaxRestarts))
                => ENABLED (Next /\ pc' # "crashed"))

\* C15 witness: the second note of a group used up its attempts and the new driver
\* could not be created; the first note's enrichment is in memory and not in the file
C15_Witness ==
    /\ pc = "crashed" /\ w = 2 /\ gi = 1
    /\ lastLog = "Failed to retrieve data. Restarting driver"
    /\ data # file /\ file = data0

----------------------------------------------------------------------------
(* The run when no call of initialize_driver fails, with any number of restarts *)

\* RestartDriverAgain where the recursive call gets the driver that was just quit
RestartKeepsQuitDriver ==
    /\ pc = "attempt"
    /\ attempt = retries
    /\ lastLog' = "Failed to retrieve data. Restarting driver"
    /\ sessions' = quit(sessions, exDriver)
    /\ attempt' = 0
    /\ restarts' = IF restarts < MaxRestarts THEN restarts + 1 ELSE restarts
    /\ slept' = 0
    /\ UNCHANGED <<data, file, pc, gi, groups, w, driver, exDriver, extracted, data0,
                   completed, saves, visited, served, processed>>

\* lines 94-101 without a bound on the recursion.  A session that was quit and that
\* no variable refers to any more is forgotten: when the frame's driver is not the
\* one process_notes holds, the new session takes the place of the old one in
\* sessions.  restarts counts up to MaxRestarts.
RestartDriverAgain ==
    /\ pc = "attempt"
    /\ attempt = retries
    /\ lastLog' = "Failed to retrieve data. Restarting driver"
    /\ IF exDriver = driver
       THEN /\ sessions' = initialize_driver(quit(sessions, exDriver))
            /\ exDriver' = Len(sessions) + 1
       ELSE /\ sessions' = [quit(sessions, exDriver) EXCEPT ![exDriver] = "open"]
            /\ exDriver' = exDriver
    /\ attempt' = 0
    /\ restarts' = IF restarts < MaxRestarts THEN restarts + 1 ELSE restarts
    /\ slept' = 0
    /\ UNCHANGED <<data, file, pc, gi, groups, w, driver, extracted, data0, completed,
                   saves, visited, served, processed>>

NextLive ==
    \/ MainInitDriver
    \/ ProcessNotesEnter
    \/ NextNote
    \/ AttemptSucceeds
    \/ AttemptTimesOut
    \/ AttemptRaises
    \/ RestartDriverAgain
    \/ MergeExtracted
    \/ ProcessNotesReturn
    \/ SaveEnrichedData
    \/ MainQuitDriver
    \/ MainSleep

\* the single thread always takes its next step, and a page that is requested on a
\* live session again and again is loaded at some time
SpecLive ==
    Init /\ [][NextLive]_vars /\ WF_vars(NextLive) /\ SF_vars(AttemptSucceeds)

\* every position of the groups main's list names
ListedPositions ==
    UNION { PositionsNamed(data0, note_groups[g]) : g \in 1..Len(note_groups) }

\* C16: when no session creation fails and no page fails to load for ever, main
\* comes to its end with every note of every listed group processed, one save per
\* group name and the file holding the final dataset.
C16_RunTerminates ==
    <>( /\ pc = "done"
        /\ processed = ListedPositions
        /\ saves = Len(note_groups)
        /\ file = data )

\* C16 witness: the run is over after at least two restarts, both notes processed
C16_Witness ==
    /\ pc = "done" /\ restarts >= 2
    /\ processed = ListedPositions /\ Cardinality(processed) = 2
    /\ saves = Len(note_groups) /\ file = data

----------------------------------------------------------------------------

\* C17: an attempt (driver.get and the waits after it) is only ever made on a
\* session that is open: whenever an attempt has just failed, the session it was
\* made on is open.
C17_NoAttemptOnClosedSession ==
    (pc = "attempt" /\ lastLog \in { "Page load exceeded the time limit",
                                      "Error retrieving data" })
        => sessions[exDriver] = "open"

\* C18: whatever extract_note_data returns is a record with all six keys whose
\* note_link is the link of the note it was called for, so process_notes never logs
\* a link mismatch or a failed extraction.
C18_ReturnEchoesLink ==
    /\ pc = "merge" =>
            /\ extracted # None
            /\ DOMAIN extracted = {"note_link"} \cup EnrichmentFields
            /\ extracted.note_link = NoteAt(data0, CurPos).note_link
    /\ lastLog \notin { "Mismatch between expected note link and extracted note link",
                        "Failed to extract data for note link" }
    /\ processed # {} =>
            \A pos \in processed : EnrichmentFields \subseteq DOMAIN NoteAt(data, pos)

\* C18 witness: a note that had no enrichment fields was merged after a restart
C18_Witness ==
    /\ pc = "notes_loop" /\ w = 2 /\ restarts >= 1
    /\ lastLog = "Successfully processed note"
    /\ DOMAIN NoteAt(data0, NotePositions(data, groups)[1]) = {"note_link"}
    /\ NoteAt(data, NotePositions(data, groups)[1]) = extracted

\* C19: an attempt on a live session can return for every page, whichever of its
\* field elements are missing; the step that returns a record makes no sleep and no
\* restart and ends the attempts for that note, and the record has all six keys.
C19_FieldMissCostsNoAttempt ==
    /\ []((pc = "attempt" /\ attempt < retries /\ sessions[exDriver] = "open") =>
            \A p \in Pages : ENABLED (AttemptSucceeds /\ served' = p))
    /\ [][ (pc = "attempt" /\ served' # served /\ served' # None) =>
                /\ pc' = "merge"
                /\ DOMAIN extracted' = {"note_link"} \cup EnrichmentFields
                /\ \A f \in EnrichmentFields :
                        extracted'[f] = Null <=> ~served'[FieldElement[f]]
                /\ slept' = 0
                /\ <<restarts', sessions', w'>> = <<restarts, sessions, w>>
         ]_vars
    /\ [](pc = "merge" => (slept = 0 /\ attempt = 0))

\* C19 witness: the first attempt for a note found the anchor element and none of
\* the field elements; the record is all nulls and no failure was logged
C19_Witness ==
    /\ pc = "merge" /\ restarts = 0 /\ slept = 0
    /\ \A f \in EnrichmentFields : extracted[f] = Null /\ ~served[FieldElement[f]]
    /\ lastLog = "Failed to get text or image source"

====
